---- MODULE Spec2Model ----
(***************************************************************************)
(* Model of src/js/tracker.js: the TLE retrieval helper, the map state,    *)
(* plotOrbit, the interval timer armed by startUpdating, and the track /   *)
(* stop click handlers.                                                    *)
(*                                                                         *)
(* Strings are sequences of one-character strings.  The browser's event    *)
(* loop runs one handler (or one continuation after an await) at a time,   *)
(* so each action below is one such run.                                   *)
(***************************************************************************)
EXTENDS Integers, Sequences, FiniteSets, TLC

VARIABLES
    clock,          \* the reading of `new Date()`, in seconds
    clicks,         \* number of track clicks so far
    pending,        \* track handlers suspended at their await; stopSeen: the
                    \* stop handler has run since the click
    nextHandle,     \* the id the next setInterval call returns
    timers,         \* the browser's live interval timers: id -> closure
    updateHandle,   \* tracker.js:35
    satMarker,      \* tracker.js:35
    orbitLayer,     \* tracker.js:35, the layers of the layer group
    mapView,        \* center and zoom of `map`
    telemetryShown, \* #telemetry style.display = 'block'
    telemetry,      \* the text of the telemetry panel
    alerts,         \* number of "Failed to parse TLE" alerts shown (tracker.js:165)
    event,          \* the handler run that produced this state
    stopped,        \* ids of the timers that were live when stop ran
    plotArgs,       \* arguments and propagation failures of the last plotOrbit
    lastRaw,        \* `lon` of the last successful tick before normalization
    run,            \* the track handler run that produced this state, if one did
    attempts        \* the epochs the last plotOrbit gave to satellite.propagate

vars == <<clock, clicks, pending, nextHandle, timers, updateHandle, satMarker,
          orbitLayer, mapView, telemetryShown, telemetry, alerts, event,
          stopped, plotArgs, lastRaw, run, attempts>>

(***************************************************************************)
(* Bounds                                                                  *)
(***************************************************************************)
MaxClicks == 2      \* track clicks in one behaviour
MaxNow == 1         \* latest clock reading given to plotOrbit on its own
MaxLines == 3       \* lines of a fetched text
TrackSteps == 1     \* stands for the 360 samples the track handler asks for
MaxSteps == 4       \* largest sample count given to plotOrbit on its own
MaxTurns == 2       \* whole turns added to a longitude
MaxParseLines == 4  \* lines of a text given to CelestrakTLEByNORAD on its own

SecondsStep == 60

(***************************************************************************)
(* Values                                                                  *)
(***************************************************************************)
Null == [null |-> TRUE]
Undefined == <<"undefined">>
NoHandle == 0
Dash == <<"-">>

Whitespace == {" ", "\n"}

RECURSIVE TrimStart(_)
TrimStart(s) ==
    IF s # <<>> /\ Head(s) \in Whitespace THEN TrimStart(Tail(s)) ELSE s

RECURSIVE TrimEnd(_)
TrimEnd(s) ==
    IF s # <<>> /\ s[Len(s)] \in Whitespace
    THEN TrimEnd(SubSeq(s, 1, Len(s) - 1))
    ELSE s

Trim(s) == TrimEnd(TrimStart(s))

\* String.prototype.split('\n'): always at least one piece
RECURSIVE SplitAcc(_, _, _)
SplitAcc(s, cur, acc) ==
    IF s = <<>> THEN Append(acc, cur)
    ELSE IF Head(s) = "\n" THEN SplitAcc(Tail(s), <<>>, Append(acc, cur))
    ELSE SplitAcc(Tail(s), Append(cur, Head(s)), acc)

Split(s) == SplitAcc(s, <<>>, <<>>)

RECURSIVE MapTrim(_)
MapTrim(ls) == IF ls = <<>> THEN <<>> ELSE <<Trim(Head(ls))>> \o MapTrim(Tail(ls))

NonEmpty(l) == l # <<>>
FilterBoolean(ls) == SelectSeq(ls, NonEmpty)

LowerChar(c) == IF c = "I" THEN "i" ELSE c
ToLowerCase(s) == [k \in 1..Len(s) |-> LowerChar(s[k])]

Includes(s, sub) ==
    \E k \in 0..(Len(s) - Len(sub)) : SubSeq(s, k + 1, k + Len(sub)) = sub

Digits == {"7"}
AllDigits(s) == s # <<>> /\ \A k \in 1..Len(s) : s[k] \in Digits

(***************************************************************************)
(* CelestrakTLEByNORAD                                                     *)
(***************************************************************************)
TleLines(txt) == FilterBoolean(MapTrim(Split(Trim(txt))))

NoradName(norad) == <<"N", "O", "R", "A", "D", " ">> \o norad

\* lines[k - 1] of a JavaScript array: undefined past its end
At(lines, k) == IF k <= Len(lines) THEN lines[k] ELSE Undefined

ParseLinesLoose(norad, lines) ==
    IF Len(lines) >= 1
    THEN IF Len(lines) = 2
         THEN [name |-> NoradName(norad), line1 |-> lines[1], line2 |-> lines[2]]
         ELSE [name |-> lines[1], line1 |-> At(lines, 2), line2 |-> At(lines, 3)]
    ELSE Null

ParseLinesSwapped(norad, lines) ==
    IF Len(lines) >= 2
    THEN IF Len(lines) = 2
         THEN [name |-> NoradName(norad), line1 |-> lines[2], line2 |-> lines[1]]
         ELSE [name |-> lines[1], line1 |-> lines[3], line2 |-> lines[2]]
    ELSE Null

ParseLines(norad, lines) ==
    IF Len(lines) >= 2
    THEN IF Len(lines) = 2
         THEN [name |-> NoradName(norad), line1 |-> lines[1], line2 |-> lines[2]]
         ELSE [name |-> lines[1], line1 |-> lines[2], line2 |-> lines[3]]
    ELSE Null

\* resp.kind: "reject" (fetch threw), "notok" (!res.ok), "ok"
CelestrakTLEByNORAD(norad, resp) ==
    IF resp.kind = "ok" THEN ParseLines(norad, TleLines(resp.txt)) ELSE Null

sampleISS ==
    [name |-> <<"S">>, line1 |-> <<"S", "1">>, line2 |-> <<"S", "2">>]


(***************************************************************************)
(* Name search of the track handler (tracker.js:137-150)                   *)
(***************************************************************************)
RECURSIVE NameSearchFrom(_, _, _)
NameSearchFrom(lines, query, k) ==
    IF k > Len(lines) THEN Null
    ELSE IF Includes(ToLowerCase(lines[k]), ToLowerCase(query))
         THEN [name |-> lines[k], line1 |-> At(lines, k + 1), line2 |-> At(lines, k + 2)]
         ELSE NameSearchFrom(lines, query, k + 3)

NameSearch(query, resp) ==
    IF resp.kind = "reject" THEN Null
    ELSE NameSearchFrom(FilterBoolean(MapTrim(Split(resp.txt))), query, 1)

(***************************************************************************)
(* Inputs from outside the program                                         *)
(***************************************************************************)
InputValues == { <<>>, <<"7", " ">>, <<"I">> }

\* lines a fetched text is made of: an empty one and one that needs trimming
RawLines == { <<>>, <<" ", "I">> }

RECURSIVE Join(_)
Join(ls) ==
    IF ls = <<>> THEN <<>>
    ELSE IF Len(ls) = 1 THEN ls[1]
    ELSE ls[1] \o <<"\n">> \o Join(Tail(ls))

Texts == { Join(ls) : ls \in UNION { [1..n -> RawLines] : n \in 0..MaxLines } }

Responses ==
    { [kind |-> "reject", txt |-> <<>>], [kind |-> "notok", txt |-> <<>>] }
    \cup { [kind |-> "ok", txt |-> t] : t \in Texts }

\* Outputs of satellite.eciToGeodetic / degreesLat / degreesLong, whose code
\* is not part of the repository: any latitude, any raw longitude.
Lats == { 10 }
RawLongitudes == { -270, -180, 90, 270, 540 }

(***************************************************************************)
(* plotOrbit (tracker.js:64-81)                                            *)
(***************************************************************************)
Floor2(n) == n \div 2
Ceil2(n) == (n + 1) \div 2

\* the loop indices i of tracker.js:69
Indices(steps) == { i \in -Floor2(steps)..(Ceil2(steps) - 1) : TRUE }

When(now, i, secondsStep) == now + i * secondsStep

\* [lat, lon] of the epoch `when`; the geodetic values are a function of
\* the epoch, so the point is represented by its epoch
GeoPoint(when) == [epoch |-> when]

RECURSIVE PathLoop(_, _, _, _, _, _)
PathLoop(i, hi, secondsStep, now, fails, path) ==
    IF ~(i < hi) THEN path
    ELSE PathLoop(i + 1, hi, secondsStep, now, fails,
                  IF i \notin fails
                  THEN Append(path, GeoPoint(When(now, i, secondsStep)))
                  ELSE path)

RECURSIVE PathLoopAbort(_, _, _, _, _, _)
PathLoopAbort(i, hi, secondsStep, now, fails, path) ==
    IF ~(i < hi) \/ i \in fails THEN path
    ELSE PathLoopAbort(i + 1, hi, secondsStep, now, fails,
                       Append(path, GeoPoint(When(now, i, secondsStep))))

PlotOrbitAbort(steps, secondsStep, now, fails) ==
    PathLoopAbort(-Floor2(steps), Ceil2(steps), secondsStep, now, fails, <<>>)

\* the path handed to L.polyline; `fails` are the loop indices whose
\* propagation returns no position
PlotOrbit(steps, secondsStep, now, fails) ==
    PathLoop(-Floor2(steps), Ceil2(steps), secondsStep, now, fails, <<>>)

RECURSIVE AttemptLoop(_, _, _, _, _)
AttemptLoop(i, hi, secondsStep, now, log) ==
    IF ~(i < hi) THEN log
    ELSE AttemptLoop(i + 1, hi, secondsStep, now,
                     Append(log, When(now, i, secondsStep)))

PlotAttemptsFloor(steps, secondsStep, now) ==
    AttemptLoop(-Floor2(steps), Floor2(steps), secondsStep, now, << >>)

\* the values of `when` of tracker.js:70-71, in the order of the calls
PlotAttempts(steps, secondsStep, now) ==
    AttemptLoop(-Floor2(steps), Ceil2(steps), secondsStep, now, << >>)

PlotArgs(steps, secondsStep, now, fails) ==
    [steps |-> steps, secondsStep |-> secondsStep, now |-> now, fails |-> fails]

\* the call: clearLayers, then one polyline of the path added to the group
PlotOrbitCall(steps, secondsStep, fails) ==
    /\ orbitLayer' = << PlotOrbit(steps, secondsStep, clock, fails) >>
    /\ plotArgs' = PlotArgs(steps, secondsStep, clock, fails)
    /\ attempts' = PlotAttempts(steps, secondsStep, clock)

(***************************************************************************)
(* Timers                                                                  *)
(***************************************************************************)
ClearIntervalNoop(tms, h) == tms

\* clearInterval(h): an id that names no live timer is ignored
ClearInterval(tms, h) == [x \in (DOMAIN tms) \ {h} |-> tms[x]]

\* setInterval(callback, 1000) returning id h
SetInterval(tms, h, closure) ==
    [x \in (DOMAIN tms) \cup {h} |-> IF x = h THEN closure ELSE tms[x]]

\* tracker.js:94
Normalize(lon) == IF lon > 180 THEN lon - 360 ELSE lon

Event(kind, h, nlines) == [kind |-> kind, h |-> h, nlines |-> nlines]

\* a run of the track handler from its last await to its end: the click it
\* serves, tleObj as the retrieval left it (tracker.js:130-151), and whether
\* the stop handler ran while this handler was suspended
Run(req, found, stopSeen) == [req |-> req, found |-> found, stopSeen |-> stopSeen]
NoRun == Run(0, Null, FALSE)

(***************************************************************************)
(* Initial state: the page after DOMContentLoaded (tracker.js:117-122)     *)
(***************************************************************************)
Init ==
    /\ clock = 0
    /\ clicks = 0
    /\ pending = {}
    /\ nextHandle = 1
    /\ timers = << >>
    /\ updateHandle = NoHandle
    /\ satMarker = Null
    /\ orbitLayer = << >>
    /\ mapView = [center |-> <<0, 0>>, zoom |-> 2]
    /\ telemetryShown = FALSE
    /\ telemetry = Null
    /\ alerts = 0
    /\ event = Event("load", NoHandle, -1)
    /\ stopped = {}
    /\ plotArgs = Null
    /\ lastRaw = 0
    /\ run = NoRun
    /\ attempts = << >>

(***************************************************************************)
(* startUpdating (tracker.js:83-115): the part that runs at the call       *)
(***************************************************************************)
StartUpdatingNoClear(satrec, meta) ==
    /\ timers' = SetInterval(timers, nextHandle, [satrec |-> satrec, meta |-> meta])
    /\ updateHandle' = nextHandle
    /\ nextHandle' = nextHandle + 1

StartUpdating(satrec, meta) ==
    /\ timers' = SetInterval(IF updateHandle # NoHandle
                             THEN ClearInterval(timers, updateHandle)
                             ELSE timers,
                             nextHandle, [satrec |-> satrec, meta |-> meta])
    /\ updateHandle' = nextHandle
    /\ nextHandle' = nextHandle + 1

(***************************************************************************)
(* The interval callback (tracker.js:85-114)                               *)
(***************************************************************************)
ShowTelemetry(obj) ==
    /\ telemetryShown' = TRUE
    /\ telemetry' = obj

TickFailErases(h) ==
    /\ h \in DOMAIN timers
    /\ telemetryShown' = FALSE
    /\ telemetry' = Null
    /\ event' = Event("tickFail", h, -1)
    /\ run' = NoRun
    /\ UNCHANGED <<attempts, clock, clicks, pending, nextHandle, timers, updateHandle,
                   satMarker, orbitLayer, mapView, alerts, stopped, plotArgs,
                   lastRaw>>

\* propagate returned no position: tracker.js:88
TickFail(h) ==
    /\ h \in DOMAIN timers
    /\ event' = Event("tickFail", h, -1)
    /\ run' = NoRun
    /\ UNCHANGED <<attempts, clock, clicks, pending, nextHandle, timers, updateHandle,
                   satMarker, orbitLayer, mapView, telemetryShown, telemetry,
                   alerts, stopped, plotArgs, lastRaw>>

TickOkReplot(h, lat, raw) ==
    /\ h \in DOMAIN timers
    /\ LET meta == timers[h].meta
           lon == Normalize(raw)
           obj == [name |-> meta.name, id |-> meta.id, lat |-> lat, lng |-> lon,
                   alt |-> 400, vel |-> 7, ts |-> clock]
       IN /\ ShowTelemetry(obj)
          /\ satMarker' = IF satMarker = Null
                          THEN [latlng |-> <<lat, lon>>, popup |-> meta]
                          ELSE [satMarker EXCEPT !.latlng = <<lat, lon>>]
          /\ mapView' = IF mapView.zoom < 5
                        THEN [center |-> <<lat, lon>>, zoom |-> 2]
                        ELSE mapView
    /\ orbitLayer' = << >>
    /\ lastRaw' = raw
    /\ event' = Event("emit", h, -1)
    /\ run' = NoRun
    /\ UNCHANGED <<attempts, clock, clicks, pending, nextHandle, timers, updateHandle,
                   alerts, stopped, plotArgs>>

TickOkMarkerRaw(h, lat, raw) ==
    /\ h \in DOMAIN timers
    /\ LET meta == timers[h].meta
           lon == Normalize(raw)
           obj == [name |-> meta.name, id |-> meta.id, lat |-> lat, lng |-> lon,
                   alt |-> 400, vel |-> 7, ts |-> clock]
       IN /\ ShowTelemetry(obj)
          /\ satMarker' = IF satMarker = Null
                          THEN [latlng |-> <<lat, raw>>, popup |-> meta]
                          ELSE [satMarker EXCEPT !.latlng = <<lat, raw>>]
          /\ mapView' = IF mapView.zoom < 5
                        THEN [center |-> <<lat, lon>>, zoom |-> 2]
                        ELSE mapView
    /\ lastRaw' = raw
    /\ event' = Event("emit", h, -1)
    /\ run' = NoRun
    /\ UNCHANGED <<attempts, clock, clicks, pending, nextHandle, timers, updateHandle,
                   orbitLayer, alerts, stopped, plotArgs>>

TickOk(h, lat, raw) ==
    /\ h \in DOMAIN timers
    /\ LET meta == timers[h].meta
           lon == Normalize(raw)
           obj == [name |-> meta.name, id |-> meta.id, lat |-> lat, lng |-> lon,
                   alt |-> 400, vel |-> 7, ts |-> clock]
       IN /\ ShowTelemetry(obj)
          /\ satMarker' = IF satMarker = Null
                          THEN [latlng |-> <<lat, lon>>, popup |-> meta]
                          ELSE [satMarker EXCEPT !.latlng = <<lat, lon>>]
          /\ mapView' = IF mapView.zoom < 5
                        THEN [center |-> <<lat, lon>>, zoom |-> 2]
                        ELSE mapView
    /\ lastRaw' = raw
    /\ event' = Event("emit", h, -1)
    /\ run' = NoRun
    /\ UNCHANGED <<attempts, clock, clicks, pending, nextHandle, timers, updateHandle,
                   orbitLayer, alerts, stopped, plotArgs>>

Tick ==
    \E h \in DOMAIN timers :
        \/ TickFail(h)
        \/ \E lat \in Lats, raw \in RawLongitudes : TickOk(h, lat, raw)

(***************************************************************************)
(* Track click handler (tracker.js:124-168)                                *)
(***************************************************************************)
\* satellite.twoline2satrec reads both lines: a missing line makes it throw;
\* what it makes of other fetched lines is the library's business; the
\* built-in sample is a well-formed element set.
MayThrow(tleObj) ==
    IF tleObj.line1 = Undefined \/ tleObj.line2 = Undefined THEN {TRUE}
    ELSE IF tleObj = sampleISS THEN {FALSE}
    ELSE {TRUE, FALSE}

Twoline2satrec(tleObj) == [line1 |-> tleObj.line1, line2 |-> tleObj.line2]

ParseFailedAfterClear(nlines) ==
    /\ alerts' = alerts + 1
    /\ event' = Event("parseFail", NoHandle, nlines)
    /\ satMarker' = Null
    /\ orbitLayer' = << >>
    /\ UNCHANGED <<nextHandle, timers, updateHandle, mapView, telemetryShown,
                   telemetry, stopped, plotArgs, attempts, lastRaw>>

\* the catch branch, tracker.js:164-167
ParseFailed(nlines) ==
    /\ alerts' = alerts + 1
    /\ event' = Event("parseFail", NoHandle, nlines)
    /\ UNCHANGED <<nextHandle, timers, updateHandle, satMarker, orbitLayer,
                   mapView, telemetryShown, telemetry, stopped, plotArgs,
                   attempts, lastRaw>>

StartSessionKeepMarker(tleObj, norad, fails, nlines) ==
    /\ PlotOrbitCall(TrackSteps, SecondsStep, fails)
    /\ StartUpdating(Twoline2satrec(tleObj), [name |-> tleObj.name, id |-> norad])
    /\ event' = Event("start", nextHandle, nlines)
    /\ UNCHANGED <<satMarker, mapView, telemetryShown, telemetry, alerts, stopped,
                   lastRaw>>

\* the try branch when twoline2satrec returns, tracker.js:160-163
StartSession(tleObj, norad, fails, nlines) ==
    /\ satMarker' = Null
    /\ PlotOrbitCall(TrackSteps, SecondsStep, fails)
    /\ StartUpdating(Twoline2satrec(tleObj), [name |-> tleObj.name, id |-> norad])
    /\ event' = Event("start", nextHandle, nlines)
    /\ UNCHANGED <<mapView, telemetryShown, telemetry, alerts, stopped, lastRaw>>

CreateSatrecNoFallback(found, norad, nlines) ==
    IF found = Null
    THEN ParseFailed(nlines)
    ELSE \E throws \in MayThrow(found) :
             IF throws
             THEN ParseFailed(nlines)
             ELSE \E fails \in SUBSET Indices(TrackSteps) :
                      StartSession(found, norad, fails, nlines)

\* tracker.js:153-167
CreateSatrec(found, norad, nlines) ==
    LET tleObj == IF found = Null THEN sampleISS ELSE found
    IN \E throws \in MayThrow(tleObj) :
           IF throws
           THEN ParseFailed(nlines)
           ELSE \E fails \in SUBSET Indices(TrackSteps) :
                    StartSession(tleObj, norad, fails, nlines)

\* tracker.js:129 and 163
Norad(query) == IF AllDigits(query) THEN query ELSE Null
MetaId(query) == IF AllDigits(query) THEN query ELSE Dash

\* the click, up to the first await (or to the end when nothing is awaited)
TrackClick ==
    /\ clicks < MaxClicks
    /\ clicks' = clicks + 1
    /\ \E v \in InputValues :
        LET query == Trim(v)
        IN IF query = << >>
           THEN /\ CreateSatrec(Null, Dash, -1)
                /\ run' = Run(clicks + 1, Null, FALSE)
                /\ UNCHANGED <<clock, pending>>
           ELSE /\ pending' = pending \cup {[id |-> clicks + 1, query |-> query,
                                            stopSeen |-> FALSE]}
                /\ event' = Event("click", NoHandle, -1)
                /\ run' = NoRun
                /\ UNCHANGED <<attempts,
                               clock, nextHandle, timers, updateHandle, satMarker,
                               orbitLayer, mapView, telemetryShown, telemetry,
                               alerts, stopped, plotArgs, lastRaw>>

\* what the awaited retrieval leaves in tleObj (tracker.js:132-151), with
\* the number of non-empty lines CelestrakTLEByNORAD saw (-1: none read)
FetchOutcome(query, resp) ==
    IF AllDigits(query)
    THEN [found |-> CelestrakTLEByNORAD(query, resp),
          nlines |-> IF resp.kind = "ok" THEN Len(TleLines(resp.txt)) ELSE -1]
    ELSE [found |-> NameSearch(query, resp), nlines |-> -1]

Queries == { Trim(v) : v \in InputValues } \ { << >> }

FetchOutcomes == [q \in Queries |-> { FetchOutcome(q, resp) : resp \in Responses }]

\* the continuation of a suspended handler once its fetch has settled
FetchDone ==
    \E r \in pending :
        \E out \in FetchOutcomes[r.query] :
            /\ pending' = pending \ {r}
            /\ CreateSatrec(out.found, MetaId(r.query), out.nlines)
            /\ run' = Run(r.id, out.found, r.stopSeen)
            /\ UNCHANGED <<clock, clicks>>

(***************************************************************************)
(* Stop click handler (tracker.js:170-175)                                 *)
(***************************************************************************)
StopClickNoClear ==
    /\ stopped' = stopped \cup ({updateHandle} \ {NoHandle})
    /\ timers' = timers
    /\ updateHandle' = NoHandle
    /\ orbitLayer' = << >>
    /\ satMarker' = Null
    /\ telemetryShown' = FALSE
    /\ event' = Event("stop", NoHandle, -1)
    /\ pending' = { [r EXCEPT !.stopSeen = TRUE] : r \in pending }
    /\ run' = NoRun
    /\ UNCHANGED <<attempts, clock, clicks, nextHandle, mapView, telemetry,
                   alerts, plotArgs, lastRaw>>

\* clearOrbit without its `if(satMarker)`: removeLayer of no layer throws and
\* the handler ends before it hides the panel
StopClickUnguarded ==
    /\ stopped' = stopped \cup ({updateHandle} \ {NoHandle})
    /\ timers' = IF updateHandle # NoHandle
                 THEN ClearInterval(timers, updateHandle)
                 ELSE timers
    /\ updateHandle' = NoHandle
    /\ orbitLayer' = << >>
    /\ satMarker' = Null
    /\ telemetryShown' = IF satMarker = Null THEN telemetryShown ELSE FALSE
    /\ event' = Event("stop", NoHandle, -1)
    /\ run' = NoRun
    /\ pending' = { [r EXCEPT !.stopSeen = TRUE] : r \in pending }
    /\ UNCHANGED <<attempts, clock, clicks, nextHandle, mapView, telemetry,
                   alerts, plotArgs, lastRaw>>

StopClick ==
    /\ stopped' = stopped \cup ({updateHandle} \ {NoHandle})
    /\ timers' = IF updateHandle # NoHandle
                 THEN ClearInterval(timers, updateHandle)
                 ELSE timers
    /\ updateHandle' = NoHandle
    /\ orbitLayer' = << >>
    /\ satMarker' = Null
    /\ telemetryShown' = FALSE
    /\ event' = Event("stop", NoHandle, -1)
    /\ pending' = { [r EXCEPT !.stopSeen = TRUE] : r \in pending }
    /\ run' = NoRun
    /\ UNCHANGED <<attempts, clock, clicks, nextHandle, mapView, telemetry,
                   alerts, plotArgs, lastRaw>>

\* No handler's control flow reads the clock, so Spec keeps it at its
\* initial reading; SpecPlot below draws the reading plotOrbit sees.
Next == TrackClick \/ FetchDone \/ Tick \/ StopClick

Spec == Init /\ [][Next]_vars

(***************************************************************************)
(* plotOrbit on its own: any sample count, step, clock reading and         *)
(* pattern of failing epochs, then one call.  The timers stay idle.        *)
(***************************************************************************)
FailIndices == -Floor2(MaxSteps)..(Ceil2(MaxSteps) - 1)
StepSizes == { 1, SecondsStep }

InitPlot ==
    /\ clock \in 0..MaxNow
    /\ plotArgs \in { PlotArgs(n, s, clock, f) :
                        n \in 0..MaxSteps, s \in StepSizes, f \in SUBSET FailIndices }
    /\ event = Event("args", NoHandle, -1)
    /\ clicks = 0
    /\ pending = {}
    /\ nextHandle = 1
    /\ timers = << >>
    /\ updateHandle = NoHandle
    /\ satMarker = Null
    /\ orbitLayer = << >>
    /\ mapView = [center |-> <<0, 0>>, zoom |-> 2]
    /\ telemetryShown = FALSE
    /\ telemetry = Null
    /\ alerts = 0
    /\ stopped = {}
    /\ lastRaw = 0
    /\ run = NoRun
    /\ attempts = << >>

PlotCall ==
    /\ event.kind = "args"
    /\ PlotOrbitCall(plotArgs.steps, plotArgs.secondsStep, plotArgs.fails)
    /\ event' = Event("plot", NoHandle, -1)
    /\ run' = NoRun
    /\ UNCHANGED <<clock, clicks, pending, nextHandle, timers, updateHandle,
                   satMarker, mapView, telemetryShown, telemetry, alerts,
                   stopped, lastRaw>>

NextPlot == PlotCall

SpecPlot == InitPlot /\ [][NextPlot]_vars

(***************************************************************************)
(* CelestrakTLEByNORAD on its own: a catalog-id request whose fetch has    *)
(* settled with any outcome and any text, then the rest of the function.   *)
(***************************************************************************)
ParseRawLines == { << >>, <<" ", "a">>, <<"b", " ">>, <<"c">> }
FetchKinds == { "ok", "notok", "reject" }

InitParse ==
    /\ pending \in { { [id |-> 1, query |-> <<"7">>, stopSeen |-> FALSE,
                        kind |-> k, lines |-> ls] } :
                        k \in FetchKinds,
                        ls \in UNION { [1..n -> ParseRawLines] : n \in 0..MaxParseLines } }
    /\ event = Event("fetched", NoHandle, -1)
    /\ clock = 0
    /\ clicks = 1
    /\ nextHandle = 1
    /\ timers = << >>
    /\ updateHandle = NoHandle
    /\ satMarker = Null
    /\ orbitLayer = << >>
    /\ mapView = [center |-> <<0, 0>>, zoom |-> 2]
    /\ telemetryShown = FALSE
    /\ telemetry = Null
    /\ alerts = 0
    /\ stopped = {}
    /\ plotArgs = Null
    /\ lastRaw = 0
    /\ run = NoRun
    /\ attempts = << >>

ParseCall ==
    /\ event.kind = "fetched"
    /\ \E r \in pending :
        LET resp == [kind |-> r.kind, txt |-> Join(r.lines)]
        IN /\ run' = Run(r.id, CelestrakTLEByNORAD(r.query, resp), FALSE)
           /\ event' = Event("parsed", NoHandle,
                             IF r.kind = "ok" THEN Len(TleLines(resp.txt)) ELSE -1)
    /\ UNCHANGED <<clock, clicks, pending, nextHandle, timers, updateHandle,
                   satMarker, orbitLayer, mapView, telemetryShown, telemetry,
                   alerts, stopped, plotArgs, lastRaw, attempts>>

NextParse == ParseCall

SpecParse == InitParse /\ [][NextParse]_vars

(***************************************************************************)
(* Properties                                                              *)
(***************************************************************************)
Live == DOMAIN timers

\* C1: at most one interval timer is live, and a live timer is the one
\* updateHandle refers to.
C1_AtMostOneLiveTimer ==
    /\ Cardinality(Live) <= 1
    /\ \A h \in Live : h = updateHandle

\* a second session was started while the first was still running
C1_Witness ==
    /\ event.kind = "start"
    /\ event.h = 2
    /\ stopped = {}
    /\ Live = {2}

\* C2: once stop has run for a running session, that session never emits
\* again: its timer is gone, and no emission is made by it.
C2_NoEmissionAfterStop ==
    /\ \A h \in stopped : h \notin Live
    /\ event.kind = "emit" => event.h \notin stopped

\* a later session emits after an earlier session was stopped
C2_Witness ==
    /\ event.kind = "emit"
    /\ stopped # {}
    /\ \A h \in stopped : h < event.h

\* C3: every emission is made by the session started last and carries that
\* session's name and id, so emissions of an older session never follow
\* the start of a newer one.
C3_EmissionsOfLatestSession ==
    event.kind = "emit" =>
        /\ event.h = nextHandle - 1
        /\ event.h \in Live
        /\ telemetry.name = timers[event.h].meta.name
        /\ telemetry.id = timers[event.h].meta.id

\* the second session, started over a running first one, has emitted
C3_Witness ==
    /\ event.kind = "emit"
    /\ event.h = 2
    /\ stopped = {}

C5_ParseFailureChangesNothing ==
    [][event'.kind = "parseFail" =>
          UNCHANGED <<updateHandle, timers, nextHandle, orbitLayer, satMarker,
                      telemetry, telemetryShown>>]_vars

\* a parse failure while a session with marker, path and telemetry runs
C5_Witness ==
    /\ event.kind = "parseFail"
    /\ updateHandle \in Live
    /\ satMarker # Null
    /\ telemetryShown
    /\ Len(orbitLayer) = 1

\* C6: a tick whose propagation fails changes nothing of the display or the
\* timers, and a successful tick of the same timer remains possible.
C6_FailedTickChangesNothing ==
    /\ [][event'.kind = "tickFail" =>
            UNCHANGED <<telemetry, telemetryShown, satMarker, mapView, timers,
                        updateHandle, orbitLayer>>]_vars
    /\ [](event.kind = "tickFail" =>
            ENABLED (\E lat \in Lats, raw \in RawLongitudes :
                        TickOk(event.h, lat, raw)))

\* a failed tick while an earlier record and the marker are displayed
C6_Witness ==
    /\ event.kind = "tickFail"
    /\ event.h = updateHandle
    /\ telemetryShown
    /\ telemetry # Null
    /\ satMarker # Null

\* C7: the longitude of an emitted record lies in (-180, 180].
C7_LongitudeInRange ==
    event.kind = "emit" => (telemetry.lng > -180 /\ telemetry.lng <= 180)

\* C8: normalizing the raw longitude plus any whole number of turns gives
\* the longitude that was emitted.
C8_NormalizePeriodic ==
    event.kind = "emit" =>
        \A k \in -MaxTurns..MaxTurns : Normalize(lastRaw + 360 * k) = telemetry.lng

\* C9: the path holds exactly the points of the attempted epochs that did
\* not fail, in increasing epoch order; so at most `steps` points, and
\* `steps` points when no attempted epoch fails.
C9_PathIsSucceededEpochs ==
    event.kind = "plot" =>
        LET a == plotArgs
            path == orbitLayer[1]
            attempted == -(a.steps \div 2)..(((a.steps + 1) \div 2) - 1)
            ok == attempted \ a.fails
        IN /\ Len(orbitLayer) = 1
           /\ Len(path) = Cardinality(ok)
           /\ { path[k].epoch : k \in 1..Len(path) }
                = { a.now + i * a.secondsStep : i \in ok }
           /\ \A j, k \in 1..Len(path) : j < k => path[j].epoch < path[k].epoch
           /\ Len(path) <= a.steps
           /\ (attempted \cap a.fails = {} => Len(path) = a.steps)

\* an odd sample count whose middle epoch fails and whose last one succeeds
C9_Witness ==
    /\ event.kind = "plot"
    /\ plotArgs.steps = 3
    /\ plotArgs.fails = {0}
    /\ Len(orbitLayer[1]) = 2

\* C10: only a session start or a stop changes the plotted path; a start
\* leaves exactly one polyline; a tick never changes the path.
C10_PathChangesOnlyOnStartOrStop ==
    /\ [][orbitLayer' # orbitLayer => event'.kind \in {"start", "stop"}]_vars
    /\ [][event'.kind \in {"emit", "tickFail"} => orbitLayer' = orbitLayer]_vars
    /\ [](event.kind = "start" => Len(orbitLayer) = 1)

\* a successful tick with a non-empty path on the map
C10_Witness ==
    /\ event.kind = "emit"
    /\ Len(orbitLayer) = 1
    /\ orbitLayer[1] # << >>

\* the request CelestrakTLEByNORAD served in SpecParse
Served == CHOOSE r \in pending : TRUE

\* the lines of the served text without their padding, empty ones left out
NotSpace(c) == c # " "
Content(l) == SelectSeq(l, NotSpace)
Expected(ls) == SelectSeq([k \in 1..Len(ls) |-> Content(ls[k])], NonEmpty)

\* C11: two remaining lines give a record named after the catalog id with the
\* two lines in order; three give the first as name and the other two in order.
C11_TwoAndThreeLineRecords ==
    (event.kind = "parsed" /\ Served.kind = "ok") =>
        LET exp == Expected(Served.lines)
        IN /\ Len(exp) = 2 =>
                /\ run.found # Null
                /\ Includes(run.found.name, Served.query)
                /\ run.found.line1 = exp[1]
                /\ run.found.line2 = exp[2]
           /\ Len(exp) = 3 =>
                /\ run.found # Null
                /\ run.found.name = exp[1]
                /\ run.found.line1 = exp[2]
                /\ run.found.line2 = exp[3]

\* two different data lines among padded and empty lines, no name line
C11_Witness ==
    /\ event.kind = "parsed"
    /\ Served.kind = "ok"
    /\ Len(Served.lines) = 4
    /\ Len(Expected(Served.lines)) = 2
    /\ Expected(Served.lines)[1] # Expected(Served.lines)[2]
    /\ run.found # Null

\* C12: a text with any other number of remaining lines than two or three
\* yields no record.
C12_OtherCountsYieldNoRecord ==
    (event.kind = "parsed" /\ Served.kind = "ok"
        /\ Len(Expected(Served.lines)) \notin {2, 3}) => run.found = Null

\* C13: a state left by the stop handler has no timer, no marker, no path
\* and a hidden panel, and a stop run in such a state changes none of it.
C13_StopIdempotent ==
    /\ [](event.kind = "stop" =>
            /\ updateHandle = NoHandle
            /\ Live = {}
            /\ satMarker = Null
            /\ orbitLayer = << >>
            /\ ~telemetryShown)
    /\ [][(event.kind = "stop" /\ event'.kind = "stop") =>
            UNCHANGED <<timers, updateHandle, nextHandle, satMarker, orbitLayer,
                        telemetryShown, telemetry, mapView, alerts>>]_vars

\* stop has run before any track click
C13_Witness ==
    /\ event.kind = "stop"
    /\ clicks = 0
    /\ nextHandle = 1

\* C14: a track handler run whose retrieval left no record ends with a
\* session running on the built-in sample record.
C14_NoRecordFallsBackToSample ==
    (run.req # 0 /\ run.found = Null) =>
        /\ event.kind = "start"
        /\ updateHandle = event.h
        /\ event.h \in Live
        /\ timers[event.h].satrec = Twoline2satrec(sampleISS)
        /\ timers[event.h].meta.name = sampleISS.name

\* a catalog-id request whose fetch gave no text at all
C14_Witness ==
    /\ run.req # 0
    /\ run.found = Null
    /\ event.kind = "start"
    /\ event.nlines = -1
    /\ event.h \in Live
    /\ timers[event.h].meta.id = <<"7">>

\* C15: plotOrbit asks for the epochs now + i * s, i from -floor(N/2) up to
\* ceil(N/2) - 1, once each and in that order.
C15_AttemptedEpochs ==
    event.kind = "plot" =>
        LET a == plotArgs
            N == a.steps
            lo == -(N \div 2)
            hi == (N + 1) \div 2
        IN /\ Len(attempts) = N
           /\ \A k \in 1..N : attempts[k] = a.now + (lo + k - 1) * a.secondsStep
           /\ \A k \in 1..(N - 1) : attempts[k + 1] - attempts[k] = a.secondsStep
           /\ N >= 1 =>
                /\ \E k \in 1..N : attempts[k] = a.now
                /\ attempts[1] = a.now + lo * a.secondsStep
                /\ attempts[N] = a.now + (hi - 1) * a.secondsStep

\* an odd sample count
C15_Witness ==
    /\ event.kind = "plot"
    /\ plotArgs.steps = 3
    /\ plotArgs.secondsStep = SecondsStep
    /\ attempts = << plotArgs.now - SecondsStep, plotArgs.now,
                     plotArgs.now + SecondsStep >>

\* C16: after a successful tick the panel is shown, and the marker exists,
\* sits at the record's latitude and normalized longitude, and carries the
\* ticking session's name and id.
C16_RecordAndMarkerAgree ==
    event.kind = "emit" =>
        /\ telemetryShown
        /\ satMarker # Null
        /\ satMarker.latlng = << telemetry.lat, telemetry.lng >>
        /\ event.h \in Live
        /\ satMarker.popup = timers[event.h].meta

\* a tick whose raw longitude had to be normalized
C16_Witness ==
    /\ event.kind = "emit"
    /\ lastRaw = 270
    /\ satMarker # Null
    /\ satMarker.latlng[2] = -90

\* C17: when a session has just been started, no record is presented.
C17_NoRecordAtSessionStart ==
    event.kind = "start" => ~telemetryShown

\* C18: no session is started by a handler run whose click came before a
\* stop.
C18_NoStartAfterStopWithoutClick ==
    event.kind = "start" => ~run.stopSeen

\* C19: when every click's handler has run to its end and each has started
\* a session, the session started last is that of the most recent click.
C19_LatestClickWins ==
    (event.kind = "start" /\ pending = {} /\ alerts = 0 /\ clicks >= 2
        /\ nextHandle = clicks + 1) => run.req = clicks

\* C20: a marker on the map carries the name and id of the session whose
\* timer is live; without a live timer there is no marker.
C20_MarkerOfLiveSession ==
    /\ satMarker # Null =>
        /\ updateHandle \in Live
        /\ satMarker.popup = timers[updateHandle].meta
    /\ Live = {} => satMarker = Null

\* the marker of a second session that superseded a running first one
C20_Witness ==
    /\ satMarker # Null
    /\ updateHandle = 2
    /\ stopped = {}

====
